---- MODULE Spec2Model ----
(***************************************************************************)
(* Model of the invoice reconciliation engine (src/processor.py).          *)
(*                                                                         *)
(* A ledger is a workbook: a set of named sheets, each with a header row   *)
(* of twelve cells, an autofilter flag and a list of data rows.  A data    *)
(* row is the tuple of its twelve cell values plus the fill of its first   *)
(* cell.  Text that the code transforms is modelled as sequences:          *)
(*   - a UUID text is a sequence of one-character strings, so that         *)
(*     strip / upper / replace are computed and not assumed;               *)
(*   - an employee name is a sequence of character codes, so that          *)
(*     lower-casing and lexicographic comparison are computed.             *)
(* A datetime is the integer YYYYMMDD; 0 is a date cell that cannot be     *)
(* read as a date (empty or invalid text).  A datetime that carries a UTC  *)
(* offset is YYYYMMDD + AWARE: Python refuses to order it against a        *)
(* datetime without offset.                                                *)
(*                                                                         *)
(* One behaviour is a succession of Processor.run invocations over one     *)
(* directory and one ledger file.  SpecApp puts the run inside the thread  *)
(* the window starts on a click of its process button (src/app.py).        *)
(***************************************************************************)
EXTENDS Integers, Sequences, FiniteSets, TLC

\* ------------------------------------------------------------------ bounds
MaxDocs == 2       \* XML files in the directory tree
MaxRows == 2       \* data rows of a sheet of the ledger before the first run
MaxRuns == 2       \* successive invocations of Processor.run
MaxSortRows == 3   \* data rows of the sheet handed to the sorter (SpecSort)
MaxClicks == 4     \* clicks on the process button (SpecApp)
MaxLen == 3        \* characters of a raw UUID text (SpecNorm)

\* ------------------------------------------------------- program constants
TARGET_YEAR == 2026
DATETIME_MAX == 99991231

\* added to a datetime that carries a UTC offset (tzinfo is not None)
AWARE == 100000000

\* the month folders / issue months of the model: Enero and Febrero
MESES == {1, 2}

MESES_INV == [m \in MESES |-> IF m = 1 THEN "Enero" ELSE "Febrero"]

COLUMNS ==
  << "Fecha", "Proveedor", "Proveedor RFC", "Folio Factura", "UUID", "Concepto",
     "Importe", "IVA", "Otros Impuestos", "Total", "Comentarios", "Empleado" >>

YELLOW == "FFF59D"
RED == "EF9A9A"
NOFILL == "00000000"
GREEN == "C8E6C9"       \* a fill some user put on a row by hand

\* f"{MESES_INV[month]} {TARGET_YEAR}"
SheetName(m) == IF m = 1 THEN "Enero 2026" ELSE "Febrero 2026"

SheetNames == {SheetName(m) : m \in MESES} \cup {"Notas"}

\* name.endswith(f" {TARGET_YEAR}")
EndsWithTargetYear(name) == name \in {SheetName(m) : m \in MESES}

\* ------------------------------------------------------------------ text
IsSpace(c) == c = " "

RECURSIVE LStrip(_)
LStrip(s) == IF s # << >> /\ IsSpace(Head(s)) THEN LStrip(Tail(s)) ELSE s

RECURSIVE RStrip(_)
RStrip(s) ==
  IF s # << >> /\ IsSpace(s[Len(s)]) THEN RStrip(SubSeq(s, 1, Len(s) - 1)) ELSE s

Strip(s) == RStrip(LStrip(s))

UpperChar(c) == IF c = "a" THEN "A" ELSE IF c = "b" THEN "B" ELSE c

Upper(s) == [i \in 1..Len(s) |-> UpperChar(s[i])]

IsBrace(c) == c \in {"{", "}"}

RemoveBraces(s) == SelectSeq(s, LAMBDA c : ~IsBrace(c))

\* str(value or "").strip().upper().replace("{", "").replace("}", "")
_normalize_uuid(x) == RemoveBraces(Upper(Strip(x)))

LowerCode(c) == IF c >= 65 /\ c <= 90 THEN c + 32 ELSE c

\* str.lower()
Lower(s) == [i \in 1..Len(s) |-> LowerCode(s[i])]

\* s < t for Python strings (lexicographic on code points)
RECURSIVE StrLess(_, _)
StrLess(s, t) ==
  IF t = << >> THEN FALSE
  ELSE IF s = << >> THEN TRUE
  ELSE IF Head(s) # Head(t) THEN Head(s) < Head(t)
  ELSE StrLess(Tail(s), Tail(t))

Ana == <<65, 110, 97>>
ana == <<97, 110, 97>>
bob == <<98, 111, 98>>

\* ---------------------------------------------------------------- dates
Year(d) == d \div 10000

Month(d) == (d \div 100) % 100

\* ------------------------------------------------------------- workbook
EmptyHeader == [i \in 1..Len(COLUMNS) |-> ""]

\* first cell is "Fecha" but the header is not the standard one
AlteredHeader == [COLUMNS EXCEPT ![11] = "Notas"]

\* a header of some unrelated sheet
ForeignHeader == [COLUMNS EXCEPT ![1] = "Date"]

NoSheet == [exists |-> FALSE, header |-> EmptyHeader, filter |-> FALSE, rows |-> << >>]

\* wb.create_sheet(name): a sheet without any cell
NewSheet == [exists |-> TRUE, header |-> EmptyHeader, filter |-> FALSE, rows |-> << >>]

\* wb.sheetnames, in workbook order
SheetOrder == <<"Enero 2026", "Febrero 2026", "Notas">>

\* ws.max_row: row 1 is the header, data rows follow
max_row(ws) == 1 + Len(ws.rows)

\* the twelve cell values of one ledger row
Values(fecha, uuid, empleado) ==
  << fecha, "PROVEEDOR", "RFC", "A-1", uuid, "GASOLINA", 100, 16, 0, 116, "", empleado >>

\* ------------------------------------------------------------ InvoiceRow
\* A document of the tree: xml says whether etree.parse, the reading of the
\* Fecha attribute and the recipient check succeed ("malformed", "no_date",
\* "bad_rfc", "ok"); fecha, uuid are the Fecha attribute and the UUID
\* attribute of the stamp; source_month and empleado are the folders it lies
\* in; subtotal and total are the SubTotal and Total attributes, -1 for an
\* attribute the document does not have.
Doc(xml, fecha, uuid, source_month, empleado) ==
  [xml |-> xml, fecha |-> fecha, uuid |-> uuid,
   source_month |-> source_month, empleado |-> empleado,
   subtotal |-> 100, total |-> 116]

\* the document without its SubTotal attribute, without its Total attribute
NoSubTotal(doc) == [doc EXCEPT !.subtotal = 0 - 1]

NoTotal(doc) == [doc EXCEPT !.total = 0 - 1]

\* a parser that raises when an amount attribute is missing
ParseStrict(doc) ==
  IF doc.xml # "ok" \/ doc.subtotal = 0 - 1 \/ doc.total = 0 - 1
  THEN [raised |-> TRUE, fecha |-> 0, uuid |-> << >>,
        source_month |-> doc.source_month, empleado |-> doc.empleado,
        importe |-> 0, total |-> 0]
  ELSE [raised |-> FALSE, fecha |-> doc.fecha, uuid |-> _normalize_uuid(doc.uuid),
        source_month |-> doc.source_month, empleado |-> doc.empleado,
        importe |-> doc.subtotal, total |-> doc.total]

\* _parse_invoice: raises on malformed XML, on a missing or invalid Fecha and
\* on a recipient other than RFC_RECEPTOR_ESPERADO; otherwise the row, its
\* uuid normalized once, a missing SubTotal or Total read as "0".
_parse_invoice(doc) ==
  IF doc.xml # "ok"
  THEN [raised |-> TRUE, fecha |-> 0, uuid |-> << >>,
        source_month |-> doc.source_month, empleado |-> doc.empleado,
        importe |-> 0, total |-> 0]
  ELSE [raised |-> FALSE, fecha |-> doc.fecha, uuid |-> _normalize_uuid(doc.uuid),
        source_month |-> doc.source_month, empleado |-> doc.empleado,
        importe |-> IF doc.subtotal = 0 - 1 THEN 0 ELSE doc.subtotal,
        total |-> IF doc.total = 0 - 1 THEN 0 ELSE doc.total]

\* ---------------------------------------------------------- UUID helpers
\* a sheet takes part in the index when it has a data row and the standard header
Indexed(ws) == ws.exists /\ ~(max_row(ws) < 2) /\ ws.header = COLUMNS

\* the (sheet, row) locations of key in one sheet, rows 2..max_row in order
RECURSIVE SheetPositions(_, _, _, _)
SheetPositions(name, rows, r, key) ==
  IF r > 1 + Len(rows) THEN << >>
  ELSE LET raw == rows[r - 1].values[5]
           here == IF raw # << >> /\ _normalize_uuid(raw) = key
                   THEN << <<name, r>> >> ELSE << >>
       IN here \o SheetPositions(name, rows, r + 1, key)

RECURSIVE PositionsFrom(_, _, _)
PositionsFrom(book, i, key) ==
  IF i > Len(SheetOrder) THEN << >>
  ELSE LET name == SheetOrder[i]
       IN (IF Indexed(book[name])
           THEN SheetPositions(name, book[name].rows, 2, key) ELSE << >>)
          \o PositionsFrom(book, i + 1, key)

\* the keys of the result dict: truthy cells whose key is not empty
IndexedKeys(book) ==
  UNION { { _normalize_uuid(book[n].rows[i].values[5]) :
              i \in {j \in 1..Len(book[n].rows) : book[n].rows[j].values[5] # << >>} } :
          n \in {m \in SheetNames : Indexed(book[m])} } \ { << >> }

\* normalised UUID -> [(sheet_name, row_number)] for every data row of the workbook
_collect_uuid_positions(book) ==
  [key \in IndexedKeys(book) |-> PositionsFrom(book, 1, key)]

\* -------------------------------------------------------- Excel helpers
\* the fill of the row becomes a copy of fill
_fill_row(ws, row_number, fill) ==
  [ws EXCEPT !.rows[row_number - 1].fill = fill]

\* the header is rewritten only when its first cell is not COLUMNS[0];
\* the autofilter is always set
_ensure_headers(ws) ==
  [ws EXCEPT !.header = IF ws.header[1] # COLUMNS[1] THEN COLUMNS ELSE ws.header,
             !.filter = TRUE]

\* a reading that knows the red fill only
DetectRedOnly(ws, row_number) ==
  IF ws.rows[row_number - 1].fill = RED THEN "RED" ELSE "None"

\* the tag read back from the fill colour of the first cell of the row
_detect_row_highlight(ws, row_number) ==
  LET rgb == ws.rows[row_number - 1].fill
  IN IF rgb = RED THEN "RED" ELSE IF rgb = YELLOW THEN "YELLOW" ELSE "None"

\* A date cell is a datetime (d > 0), empty (0), a text that is no ISO date
\* (-1), the ISO text of the date d (-d), or the ISO text of d with a UTC
\* offset (-(d + AWARE)).  The result is the datetime, or None (0) for an
\* empty or invalid cell.
_coerce_datetime(value) ==
  IF value > 0 THEN value
  ELSE IF value = 0 \/ value = -1 THEN 0
  ELSE 0 - value

\* ws.append(values): a new last row, without fill
AppendRow(ws, values) ==
  [ws EXCEPT !.rows = Append(ws.rows, [values |-> values, fill |-> NOFILL])]

\* paint every location of every key of new that has more than one location
RECURSIVE PaintAll(_, _)
PaintAll(book, positions) ==
  IF positions = << >> THEN book
  ELSE LET sheet_name == Head(positions)[1]
           row_num == Head(positions)[2]
           painted == IF book[sheet_name].exists
                      THEN [book EXCEPT ![sheet_name] = _fill_row(@, row_num, RED)]
                      ELSE book
       IN PaintAll(painted, Tail(positions))

AllPositions(existing, new, uuid_key) ==
  (IF uuid_key \in DOMAIN existing THEN existing[uuid_key] ELSE << >>) \o new[uuid_key]

DupKeys(existing, new) ==
  {k \in DOMAIN new : Len(AllPositions(existing, new, k)) > 1}

RECURSIVE PaintKeys(_, _, _, _)
PaintKeys(book, existing, new, keys) ==
  IF keys = {} THEN book
  ELSE LET k == CHOOSE x \in keys : TRUE
       IN PaintKeys(PaintAll(book, AllPositions(existing, new, k)),
                    existing, new, keys \ {k})

\* _apply_duplicates: the workbook after the pass, and the count it returns
_apply_duplicates(book, existing, new) ==
  [wb |-> PaintKeys(book, existing, new, DupKeys(existing, new)),
   dup_count |-> Cardinality(DupKeys(existing, new))]

\* ---------------------------------------------------------------- sorter
\* data.append((empleado, fecha_dt, values, highlight)) for row r
SortItem(ws, r) ==
  LET values == ws.rows[r - 1].values
      fecha_dt == _coerce_datetime(values[1])
  IN << Lower(values[12]),
        IF fecha_dt = 0 THEN DATETIME_MAX ELSE fecha_dt,
        values,
        _detect_row_highlight(ws, r) >>

\* an order that looks at the employee only
KeyLessByEmployee(x, y) == StrLess(x[1], y[1])

\* (x[0], x[1]) < (y[0], y[1])
KeyLess(x, y) == StrLess(x[1], y[1]) \/ (x[1] = y[1] /\ x[2] < y[2])

\* x put behind every item whose key is not greater than its own
RECURSIVE InsertStable(_, _)
InsertStable(sorted, x) ==
  IF sorted = << >> THEN << x >>
  ELSE IF KeyLess(x, Head(sorted)) THEN << x >> \o sorted
  ELSE << Head(sorted) >> \o InsertStable(Tail(sorted), x)

\* data.sort(key=lambda x: (x[0], x[1])): stable
RECURSIVE SortData(_, _)
SortData(data, done) ==
  IF data = << >> THEN done
  ELSE SortData(Tail(data), InsertStable(done, Head(data)))

HighlightFill(highlight) ==
  IF highlight = "YELLOW" THEN YELLOW ELSE IF highlight = "RED" THEN RED ELSE NOFILL

\* one sheet of _sort_all_month_sheets: read, sort, clear, rewrite
SortSheet(name, ws) ==
  IF ~ws.exists \/ ~EndsWithTargetYear(name) \/ max_row(ws) < 3 THEN ws
  ELSE LET data == SortData([i \in 1..Len(ws.rows) |-> SortItem(ws, i + 1)], << >>)
       IN [ws EXCEPT !.rows = [i \in 1..Len(data) |->
                                 [values |-> data[i][3], fill |-> HighlightFill(data[i][4])]]]

\* tzinfo of a datetime
IsAware(dt) == dt > AWARE

\* (x[0], x[1]) < (y[0], y[1]) raises TypeError: the employees are equal and
\* one datetime carries an offset while the other does not
KeyRaises(x, y) == x[1] = y[1] /\ IsAware(x[2]) # IsAware(y[2])

\* data.sort raises on the rows of this sheet: a sort cannot order two rows
\* of one employee without comparing adjacent dates of that employee
SortRaises(name, ws) ==
  /\ ws.exists /\ EndsWithTargetYear(name) /\ ~(max_row(ws) < 3)
  /\ \E i, j \in 1..Len(ws.rows) : KeyRaises(SortItem(ws, i + 1), SortItem(ws, j + 1))

\* positions in wb.sheetnames of the sheets whose sort raises
Raising(book) ==
  {i \in 1..Len(SheetOrder) : SortRaises(SheetOrder[i], book[SheetOrder[i]])}

SorterRaises(book) == Raising(book) # {}

Position(name) == CHOOSE i \in 1..Len(SheetOrder) : SheetOrder[i] = name

\* the sheets are sorted in workbook order; the first sheet whose sort
\* raises ends the loop, that sheet and the later ones keep their rows
_sort_all_month_sheets(book) ==
  [n \in SheetNames |->
     IF \A i \in Raising(book) : Position(n) < i
     THEN SortSheet(n, book[n]) ELSE book[n]]

\* the sheets whose rows the loop has read
Reached(book) ==
  [n \in SheetNames |->
     IF \A i \in Raising(book) : Position(n) <= i THEN book[n] ELSE NoSheet]

\* the rows whose date cell cannot be read, one warning line each
RECURSIVE SortWarnings(_, _, _)
SortWarnings(book, i, r) ==
  IF i > Len(SheetOrder) THEN << >>
  ELSE LET name == SheetOrder[i]
           ws == book[name]
       IN IF ~ws.exists \/ ~EndsWithTargetYear(name) \/ max_row(ws) < 3 \/ r > max_row(ws)
          THEN SortWarnings(book, i + 1, 2)
          ELSE (IF _coerce_datetime(ws.rows[r - 1].values[1]) = 0
                THEN << [tag |-> "ADVERTENCIA fecha", at |-> r] >> ELSE << >>)
               \o SortWarnings(book, i, r + 1)

\* ---------------------------------------------------------------- inputs
\* UUID texts of stamps and of ledger cells
DocUuids ==
  { << >>, <<"a">>, <<"{", " ", "a", "}">>, <<"{", " ", "}">> }

LedgerUuids == { <<"{", "a", "}">>, <<"{", " ", "a", "}">> }

\* the documents a tree may hold
Docs ==
  { Doc(x, 0, << >>, 1, Ana) : x \in {"malformed", "bad_rfc"} }
  \cup { Doc("ok", 20250110, <<"a">>, 1, Ana), Doc("ok", 20260110, << >>, 1, Ana) }
  \cup { Doc("ok", f, <<"a">>, sm, Ana) : f \in {20260110, 20260210}, sm \in MESES }
  \cup { Doc("ok", 20260110, u, 1, Ana) : u \in DocUuids \ { << >>, <<"a">> } }

\* scan order: month folders in MESES order, employee folders by lower-cased name
ScanOrdered(d) ==
  \A i \in 1..Len(d) - 1 :
     \/ d[i].source_month < d[i + 1].source_month
     \/ /\ d[i].source_month = d[i + 1].source_month
        /\ ~StrLess(Lower(d[i + 1].empleado), Lower(d[i].empleado))

SeqsUpTo(S, n) == UNION { [1..k -> S] : k \in 0..n }

Dirs == { d \in SeqsUpTo(Docs, MaxDocs) : ScanOrdered(d) }

\* rows of employee bob: a datetime cell with either UUID text, or the ISO
\* text of a date with a UTC offset
LedgerRows ==
  { [values |-> Values(20260120, u, bob), fill |-> NOFILL] : u \in LedgerUuids }
  \cup { [values |-> Values(0 - (20260105 + AWARE), <<"{", "a", "}">>, bob), fill |-> NOFILL] }

\* a ledger whose only sheet is the one of January
January(h, rs) ==
  [n \in SheetNames |->
     IF n = SheetName(1)
     THEN [exists |-> TRUE, header |-> h, filter |-> TRUE, rows |-> rs]
     ELSE NoSheet]

\* the ledger files of the model: the sheet of January absent; present with
\* the standard header and up to MaxRows data rows; or present with another
\* header and at most one data row
Ledgers ==
  { [n \in SheetNames |-> NoSheet] }
  \cup { January(COLUMNS, rs) : rs \in SeqsUpTo(LedgerRows, MaxRows) }
  \cup { January(h, rs) :
           h \in {AlteredHeader, ForeignHeader},
           rs \in { << >>, << [values |-> Values(20260120, <<"{", "a", "}">>, bob),
                               fill |-> NOFILL] >> } }

\* ----------------------------------------------------------------- state
VARIABLES
  dir,                       \* the XML files of the tree, in scan order
  file,                      \* the ledger file on disk
  wb,                        \* the workbook loaded by the run
  existing_uuid_positions,   \* index built from the ledger at load
  existing_uuid_set,         \* keys already seen
  new_uuid_positions,        \* keys inserted by this run
  inserted, warnings, errors,
  dry_run,
  next_doc,                  \* position of the scan in dir
  pc,                        \* position of run()
  log,                       \* lines given to the logger by this run
  result,                    \* the dict returned by the run
  run,                       \* number of invocations started
  prev,                      \* what the previous invocation left
  file0,                     \* the ledger file when this run loaded it
  saves,                     \* wb.save calls of this run
  dup_count,                 \* what _apply_duplicates returned to this run
  phases,                    \* the steps this run has taken, in order
  base_exists,               \* the source root directory exists
  excel_readable,            \* load_workbook can read the ledger file
  process_btn_enabled,       \* HoverButton._enabled of the process button
  alive,                     \* threads running App._process
  clicks,                    \* clicks on the process button so far
  text,                      \* a raw UUID text
  keys                       \* what successive _normalize_uuid calls made of text

vars ==
  << dir, file, wb, existing_uuid_positions, existing_uuid_set, new_uuid_positions,
     inserted, warnings, errors, dry_run, next_doc, pc, log, result, run, prev,
     file0, saves, dup_count, phases, base_exists, excel_readable,
     process_btn_enabled, alive, clicks, text, keys >>

\* what Processor.run never touches
rest == << base_exists, excel_readable, process_btn_enabled, alive, clicks, text, keys >>

NoResult == [inserted |-> 0, warnings |-> 0, errors |-> 0, dry_run |-> FALSE]

NoPrev ==
  [valid |-> FALSE, dry_run |-> FALSE, log |-> << >>, result |-> NoResult,
   file |-> [n \in SheetNames |-> NoSheet]]

\* the window before any click, and no UUID text under study
Elsewhere ==
  /\ process_btn_enabled = TRUE
  /\ alive = 0
  /\ clicks = 0
  /\ text = << >>
  /\ keys = << >>

\* a tree and a ledger; or no source root at all; or a ledger file that
\* load_workbook cannot read
Init ==
  /\ \/ base_exists = TRUE /\ excel_readable = TRUE /\ dir \in Dirs /\ file \in Ledgers
     \/ base_exists = FALSE /\ excel_readable = TRUE /\ dir = << >> /\ file \in Ledgers
     \/ /\ base_exists = TRUE /\ excel_readable = FALSE
        /\ dir = << >> /\ file = [n \in SheetNames |-> NoSheet]
  /\ Elsewhere
  /\ phases = << >>
  /\ wb = file
  /\ existing_uuid_positions = << >>
  /\ existing_uuid_set = {}
  /\ new_uuid_positions = << >>
  /\ inserted = 0 /\ warnings = 0 /\ errors = 0
  /\ dry_run = FALSE
  /\ next_doc = 1
  /\ pc = "idle"
  /\ log = << >>
  /\ result = NoResult
  /\ run = 0
  /\ prev = NoPrev
  /\ file0 = file
  /\ saves = 0
  /\ dup_count = 0

\* ------------------------------------------------------------------- run
\* a run that starts with an empty set of seen keys
RunForgetsIndex(limit) ==
  /\ pc \in {"idle", "done", "raised", "thread"}
  /\ run < limit
  /\ excel_readable
  /\ phases' = << "load" >>
  /\ \E d \in BOOLEAN : dry_run' = d
  /\ wb' = file
  /\ existing_uuid_positions' = _collect_uuid_positions(file)
  /\ existing_uuid_set' = {}
  /\ new_uuid_positions' = << >>
  /\ inserted' = 0 /\ warnings' = 0 /\ errors' = 0
  /\ next_doc' = 1
  /\ log' = << >>
  /\ pc' = "scan"
  /\ run' = run + 1
  /\ prev' = IF pc = "done"
             THEN [valid |-> TRUE, dry_run |-> dry_run, log |-> log,
                   result |-> result, file |-> file]
             ELSE prev
  /\ file0' = file
  /\ saves' = 0
  /\ dup_count' = 0
  /\ UNCHANGED rest
  /\ UNCHANGED << dir, file, result >>

\* run(dry_run): load the workbook, build the index, reset the counters;
\* limit bounds the number of invocations.  The caller is at rest, or is a
\* thread of the window that has just been started.
RunUpTo(limit) ==
  /\ pc \in {"idle", "done", "raised", "thread"}
  /\ run < limit
  /\ excel_readable
  /\ phases' = << "load" >>
  /\ \E d \in BOOLEAN : dry_run' = d
  /\ wb' = file
  /\ existing_uuid_positions' = _collect_uuid_positions(file)
  /\ existing_uuid_set' = DOMAIN _collect_uuid_positions(file)
  /\ new_uuid_positions' = << >>
  /\ inserted' = 0 /\ warnings' = 0 /\ errors' = 0
  /\ next_doc' = 1
  /\ log' = << >>
  /\ pc' = "scan"
  /\ run' = run + 1
  /\ prev' = IF pc = "done"
             THEN [valid |-> TRUE, dry_run |-> dry_run, log |-> log,
                   result |-> result, file |-> file]
             ELSE prev
  /\ file0' = file
  /\ saves' = 0
  /\ dup_count' = 0
  /\ UNCHANGED rest
  /\ UNCHANGED << dir, file, result >>

Run == RunUpTo(MaxRuns)

\* the only invocation of a behaviour of SpecOne
RunOnce == RunUpTo(1)

\* run(dry_run) when load_workbook raises: nothing else of run is executed
LoadErrorUpTo(limit) ==
  /\ pc \in {"idle", "done", "raised", "thread"}
  /\ run < limit
  /\ ~excel_readable
  /\ \E d \in BOOLEAN : dry_run' = d
  /\ phases' = << "load" >>
  /\ pc' = "raised"
  /\ run' = run + 1
  /\ UNCHANGED rest
  /\ UNCHANGED << dir, file, wb, existing_uuid_positions, existing_uuid_set,
                  new_uuid_positions, inserted, warnings, errors, next_doc, log,
                  result, prev, file0, saves, dup_count >>

LoadError == LoadErrorUpTo(MaxRuns)

LoadErrorOnce == LoadErrorUpTo(1)

Scanning == pc = "scan" /\ next_doc <= Len(dir)

row == _parse_invoice(dir[next_doc])

uuid_key == _normalize_uuid(row.uuid)

LogLine(tag) == [tag |-> tag, at |-> next_doc]

\* the text the logger receives for a line, word by word (accents dropped);
\* a word in braces is a value the f-string interpolates
Message(tag) ==
  CASE tag = "ERROR parseando" -> << "ERROR", "parseando", "{name}:", "{exc}" >>
    [] tag = "ERROR fecha fuera" ->
         << "ERROR", "fecha", "fuera", "de", "2026", "({fecha})", "en", "{name}" >>
    [] tag = "ERROR UUID vacio" -> << "ERROR", "UUID", "vacio", "en", "{name}" >>
    [] tag = "OMITIDO UUID ya existente" ->
         << "OMITIDO", "UUID", "ya", "existente:", "{uuid}", "({name})" >>
    [] tag = "ADVERTENCIA mes distinto" ->
         << "ADVERTENCIA", "mes", "distinto:", "{name}", "en", "carpeta", "{source_month}",
            "pero", "fecha", "{fecha}" >>
    [] tag = "ADVERTENCIA UUIDs duplicados" ->
         << "ADVERTENCIA", "UUIDs", "duplicados", "detectados", "y", "marcados", "en",
            "rojo:", "{dup_count}" >>
    [] tag = "ERROR ordenando sheets" -> << "ERROR", "ordenando", "sheets:", "{exc}" >>
    [] tag = "ADVERTENCIA fecha" ->
         << "ADVERTENCIA", "fecha", "{vacia|invalida}", "en", "sheet", "{sheet_name}",
            "fila", "{row_number};", "se", "ordena", "al", "final." >>

\* a rejection that is logged and not counted
RejectUncounted(tag) ==
  /\ UNCHANGED errors
  /\ phases' = Append(phases, "scan")
  /\ log' = Append(log, LogLine(tag))
  /\ next_doc' = next_doc + 1
  /\ UNCHANGED rest
  /\ UNCHANGED << dir, file, wb, existing_uuid_positions, existing_uuid_set,
                  new_uuid_positions, inserted, warnings, dry_run, pc, result, run,
                  prev, file0, saves, dup_count >>

\* the document is counted as an error and the scan goes on
Reject(tag) ==
  /\ errors' = errors + 1
  /\ phases' = Append(phases, "scan")
  /\ log' = Append(log, LogLine(tag))
  /\ next_doc' = next_doc + 1
  /\ UNCHANGED rest
  /\ UNCHANGED << dir, file, wb, existing_uuid_positions, existing_uuid_set,
                  new_uuid_positions, inserted, warnings, dry_run, pc, result, run,
                  prev, file0, saves, dup_count >>

\* except Exception around _parse_invoice
ParseError ==
  /\ Scanning
  /\ row.raised
  /\ Reject("ERROR parseando")

\* row.fecha.year != TARGET_YEAR
YearError ==
  /\ Scanning
  /\ ~row.raised
  /\ Year(row.fecha) # TARGET_YEAR
  /\ Reject("ERROR fecha fuera")

\* not row.uuid
EmptyUuid ==
  /\ Scanning
  /\ ~row.raised
  /\ Year(row.fecha) = TARGET_YEAR
  /\ row.uuid = << >>
  /\ Reject("ERROR UUID vacio")

Valid == Scanning /\ ~row.raised /\ Year(row.fecha) = TARGET_YEAR /\ row.uuid # << >>

\* a skip that counts the document as an error
OmitAsError ==
  /\ Valid
  /\ uuid_key \in existing_uuid_set
  /\ phases' = Append(phases, "scan")
  /\ errors' = errors + 1
  /\ log' = Append(log, LogLine("OMITIDO UUID ya existente"))
  /\ next_doc' = next_doc + 1
  /\ UNCHANGED rest
  /\ UNCHANGED << dir, file, wb, existing_uuid_positions, existing_uuid_set,
                  new_uuid_positions, inserted, warnings, dry_run, pc, result,
                  run, prev, file0, saves, dup_count >>

\* uuid_key in existing_uuid_set
Omit ==
  /\ Valid
  /\ uuid_key \in existing_uuid_set
  /\ phases' = Append(phases, "scan")
  /\ log' = Append(log, LogLine("OMITIDO UUID ya existente"))
  /\ next_doc' = next_doc + 1
  /\ UNCHANGED rest
  /\ UNCHANGED << dir, file, wb, existing_uuid_positions, existing_uuid_set,
                  new_uuid_positions, inserted, warnings, errors, dry_run, pc, result,
                  run, prev, file0, saves, dup_count >>

\* the sheet of the folder the file lies in
FolderSheet == SheetName(row.source_month)

target_sheet == SheetName(Month(row.fecha))

\* the target sheet, created when missing, headers ensured
Target(book) ==
  _ensure_headers(IF ~book[target_sheet].exists
                  THEN _ensure_headers(NewSheet) ELSE book[target_sheet])

Mismatch == MESES_INV[row.source_month] # MESES_INV[Month(row.fecha)]

\* the row appended, painted yellow when the months differ
Inserted(ws) ==
  LET appended == AppendRow(ws, [Values(row.fecha, row.uuid, row.empleado)
                                   EXCEPT ![7] = row.importe, ![10] = row.total])
  IN IF Mismatch THEN _fill_row(appended, max_row(appended), YELLOW) ELSE appended

\* an insertion that does not remember the key it has inserted
InsertUnseen ==
  /\ Valid
  /\ uuid_key \notin existing_uuid_set
  /\ ~dry_run
  /\ phases' = Append(phases, "insert")
  /\ wb' = [wb EXCEPT ![target_sheet] = Inserted(Target(wb))]
  /\ inserted' = inserted + 1
  /\ warnings' = IF Mismatch THEN warnings + 1 ELSE warnings
  /\ log' = IF Mismatch THEN Append(log, LogLine("ADVERTENCIA mes distinto")) ELSE log
  /\ new_uuid_positions' =
       LET at == << target_sheet, max_row(Target(wb)) + 1 >>
       IN IF uuid_key \in DOMAIN new_uuid_positions
          THEN [new_uuid_positions EXCEPT ![uuid_key] = Append(@, at)]
          ELSE [k \in DOMAIN new_uuid_positions \cup {uuid_key} |->
                  IF k = uuid_key THEN << at >> ELSE new_uuid_positions[k]]
  /\ next_doc' = next_doc + 1
  /\ UNCHANGED rest
  /\ UNCHANGED << dir, file, existing_uuid_positions, existing_uuid_set, errors,
                  dry_run, pc, result, run, prev, file0, saves, dup_count >>

\* lines 176-221 with dry_run false
Insert ==
  /\ Valid
  /\ uuid_key \notin existing_uuid_set
  /\ ~dry_run
  /\ phases' = Append(phases, "insert")
  /\ wb' = [wb EXCEPT ![target_sheet] = Inserted(Target(wb))]
  /\ inserted' = inserted + 1
  /\ warnings' = IF Mismatch THEN warnings + 1 ELSE warnings
  /\ log' = IF Mismatch THEN Append(log, LogLine("ADVERTENCIA mes distinto")) ELSE log
  /\ new_uuid_positions' =
       LET at == << target_sheet, max_row(Target(wb)) + 1 >>
       IN IF uuid_key \in DOMAIN new_uuid_positions
          THEN [new_uuid_positions EXCEPT ![uuid_key] = Append(@, at)]
          ELSE [k \in DOMAIN new_uuid_positions \cup {uuid_key} |->
                  IF k = uuid_key THEN << at >> ELSE new_uuid_positions[k]]
  /\ existing_uuid_set' = existing_uuid_set \cup {uuid_key}
  /\ next_doc' = next_doc + 1
  /\ UNCHANGED rest
  /\ UNCHANGED << dir, file, existing_uuid_positions, errors, dry_run, pc, result,
                  run, prev, file0, saves, dup_count >>

\* lines 176-183 with dry_run true: the sheet and its header only
InsertDry ==
  /\ Valid
  /\ uuid_key \notin existing_uuid_set
  /\ dry_run
  /\ phases' = Append(phases, "scan")
  /\ wb' = [wb EXCEPT ![target_sheet] = Target(wb)]
  /\ next_doc' = next_doc + 1
  /\ UNCHANGED rest
  /\ UNCHANGED << dir, file, existing_uuid_positions, existing_uuid_set,
                  new_uuid_positions, inserted, warnings, errors, dry_run, pc, log,
                  result, run, prev, file0, saves, dup_count >>

\* an end of the scan that goes to the sorter at once
ScanEndNoDups ==
  /\ pc = "scan"
  /\ next_doc > Len(dir)
  /\ pc' = IF dry_run THEN "return" ELSE "sort"
  /\ UNCHANGED phases
  /\ UNCHANGED rest
  /\ UNCHANGED << dir, file, wb, existing_uuid_positions, existing_uuid_set,
                  new_uuid_positions, inserted, warnings, errors, dry_run, next_doc,
                  log, result, run, prev, file0, saves, dup_count >>

\* the loops are over
ScanEnd ==
  /\ pc = "scan"
  /\ next_doc > Len(dir)
  /\ pc' = IF dry_run THEN "return" ELSE "dups"
  /\ UNCHANGED phases
  /\ UNCHANGED rest
  /\ UNCHANGED << dir, file, wb, existing_uuid_positions, existing_uuid_set,
                  new_uuid_positions, inserted, warnings, errors, dry_run, next_doc,
                  log, result, run, prev, file0, saves, dup_count >>

\* Step 4
ApplyDuplicates ==
  /\ pc = "dups"
  /\ phases' = Append(phases, "dups")
  /\ LET r == _apply_duplicates(wb, existing_uuid_positions, new_uuid_positions)
     IN /\ wb' = r.wb
        /\ dup_count' = r.dup_count
        /\ warnings' = warnings + r.dup_count
        /\ log' = IF r.dup_count # 0
                  THEN Append(log, [tag |-> "ADVERTENCIA UUIDs duplicados", at |-> r.dup_count])
                  ELSE log
  /\ pc' = "sort"
  /\ UNCHANGED rest
  /\ UNCHANGED << dir, file, existing_uuid_positions, existing_uuid_set,
                  new_uuid_positions, inserted, errors, dry_run, next_doc, result, run,
                  prev, file0, saves >>

\* Step 5, no sheet raises
SortSheets ==
  /\ pc = "sort"
  /\ ~SorterRaises(wb)
  /\ phases' = Append(phases, "sort")
  /\ wb' = _sort_all_month_sheets(wb)
  /\ log' = log \o SortWarnings(wb, 1, 2)
  /\ pc' = "save"
  /\ UNCHANGED rest
  /\ UNCHANGED << dir, file, existing_uuid_positions, existing_uuid_set,
                  new_uuid_positions, inserted, warnings, errors, dry_run, next_doc,
                  result, run, prev, file0, saves, dup_count >>

\* Step 5, except Exception: the sheets before the one that raised are
\* sorted, the error is counted and logged, and the run goes on to the save
SortError ==
  /\ pc = "sort"
  /\ SorterRaises(wb)
  /\ phases' = Append(phases, "sort")
  /\ wb' = _sort_all_month_sheets(wb)
  /\ errors' = errors + 1
  /\ log' = (log \o SortWarnings(Reached(wb), 1, 2))
               \o << [tag |-> "ERROR ordenando sheets", at |-> 0] >>
  /\ pc' = "save"
  /\ UNCHANGED rest
  /\ UNCHANGED << dir, file, existing_uuid_positions, existing_uuid_set,
                  new_uuid_positions, inserted, warnings, dry_run, next_doc,
                  result, run, prev, file0, saves, dup_count >>

\* wb.save(self.excel_path)
Save ==
  /\ pc = "save"
  /\ phases' = Append(phases, "save")
  /\ file' = wb
  /\ saves' = saves + 1
  /\ pc' = "return"
  /\ UNCHANGED rest
  /\ UNCHANGED << dir, wb, existing_uuid_positions, existing_uuid_set,
                  new_uuid_positions, inserted, warnings, errors, dry_run, next_doc,
                  log, result, run, prev, file0, dup_count >>

\* a dict that does not echo the flag
ResultFlagLost ==
  [inserted |-> inserted, warnings |-> warnings, errors |-> errors, dry_run |-> FALSE]

\* the dict of lines 239-244
Result ==
  [inserted |-> inserted, warnings |-> warnings, errors |-> errors, dry_run |-> dry_run]

Return ==
  /\ pc = "return"
  /\ result' = Result
  /\ pc' = "done"
  /\ UNCHANGED phases
  /\ UNCHANGED rest
  /\ UNCHANGED << dir, file, wb, existing_uuid_positions, existing_uuid_set,
                  new_uuid_positions, inserted, warnings, errors, dry_run, next_doc,
                  log, run, prev, file0, saves, dup_count >>

Next ==
  \/ Run
  \/ LoadError
  \/ ParseError
  \/ YearError
  \/ EmptyUuid
  \/ Omit
  \/ Insert
  \/ InsertDry
  \/ ScanEnd
  \/ ApplyDuplicates
  \/ SortSheets
  \/ SortError
  \/ Save
  \/ Return

Spec == Init /\ [][Next]_vars

\* one invocation of run
NextOne ==
  \/ RunOnce
  \/ LoadErrorOnce
  \/ ParseError
  \/ YearError
  \/ EmptyUuid
  \/ Omit
  \/ Insert
  \/ InsertDry
  \/ ScanEnd
  \/ ApplyDuplicates
  \/ SortSheets
  \/ SortError
  \/ Save
  \/ Return

SpecOne == Init /\ [][NextOne]_vars

\* ------------------------------------------------- the parser's cases
\* one document of every kind the parser tells apart
ParseDocs ==
  { Doc(x, 0, <<"b">>, 1, Ana) : x \in {"malformed", "no_date", "bad_rfc"} }
  \cup { Doc("ok", 20250110, <<"b">>, 1, Ana), Doc("ok", 20260110, << >>, 1, Ana),
         Doc("ok", 20260110, <<"a">>, 1, Ana), Doc("ok", 20260110, <<"b">>, 1, Ana),
         NoSubTotal(Doc("ok", 20260110, <<"b">>, 1, Ana)),
         NoTotal(Doc("ok", 20260210, <<"b">>, 1, Ana)) }

\* the January sheet without rows, with a row of UUID {a}, and with two
\* rows whose sort raises
ParseLedgers ==
  { January(COLUMNS, rs) :
      rs \in { << >>,
               << [values |-> Values(20260120, <<"{", "a", "}">>, bob), fill |-> NOFILL] >>,
               << [values |-> Values(20260120, <<"{", "a", "}">>, bob), fill |-> NOFILL],
                  [values |-> Values(0 - (20260105 + AWARE), <<"{", "a", "}">>, bob),
                   fill |-> NOFILL] >> } }

InitParse ==
  /\ \/ /\ excel_readable = TRUE
        /\ dir \in SeqsUpTo(ParseDocs, MaxDocs)
        /\ file \in ParseLedgers
     \/ /\ excel_readable = FALSE
        /\ dir = << >> /\ file = [n \in SheetNames |-> NoSheet]
  /\ base_exists = TRUE
  /\ Elsewhere
  /\ phases = << >>
  /\ wb = file
  /\ existing_uuid_positions = << >>
  /\ existing_uuid_set = {}
  /\ new_uuid_positions = << >>
  /\ inserted = 0 /\ warnings = 0 /\ errors = 0
  /\ dry_run = FALSE
  /\ next_doc = 1
  /\ pc = "idle"
  /\ log = << >>
  /\ result = NoResult
  /\ run = 0
  /\ prev = NoPrev
  /\ file0 = file
  /\ saves = 0
  /\ dup_count = 0

SpecParse == InitParse /\ [][NextOne]_vars

\* ------------------------------------------------- the window (src/app.py)
engine ==
  << dir, file, wb, existing_uuid_positions, existing_uuid_set, new_uuid_positions,
     inserted, warnings, errors, dry_run, next_doc, log, result, run, prev, file0,
     saves, dup_count, phases, base_exists, excel_readable, text, keys >>

\* HoverButton._on_click while the button is disabled: nothing happens
ClickIgnored ==
  /\ clicks < MaxClicks
  /\ ~process_btn_enabled
  /\ clicks' = clicks + 1
  /\ UNCHANGED << engine, pc, process_btn_enabled, alive >>

\* _start_processing leaves at its first check: the base folder is no folder
ClickRejected ==
  /\ clicks < MaxClicks
  /\ process_btn_enabled
  /\ ~base_exists
  /\ clicks' = clicks + 1
  /\ UNCHANGED << engine, pc, process_btn_enabled, alive >>

\* a start that leaves the button enabled
StartKeepsEnabled ==
  /\ clicks < MaxClicks
  /\ run + alive < MaxRuns
  /\ process_btn_enabled
  /\ base_exists
  /\ clicks' = clicks + 1
  /\ alive' = alive + 1
  /\ pc' = "thread"
  /\ UNCHANGED << engine, process_btn_enabled >>

\* HoverButton._on_click while enabled, and _start_processing past its
\* checks: the button is disabled, then the thread is started
_start_processing ==
  /\ clicks < MaxClicks
  /\ run + alive < MaxRuns
  /\ process_btn_enabled
  /\ base_exists
  /\ clicks' = clicks + 1
  /\ process_btn_enabled' = FALSE
  /\ alive' = alive + 1
  /\ pc' = "thread"
  /\ UNCHANGED engine

\* _process: the thread calls Processor.run
ProcessRun == pc = "thread" /\ RunUpTo(MaxRuns)

\* _process: the call raises at load_workbook
ProcessLoadError == pc = "thread" /\ LoadErrorUpTo(MaxRuns)

\* _process, finally: after the result or the exception has been shown the
\* button is enabled again and the thread ends
ProcessFinally ==
  /\ pc \in {"done", "raised"}
  /\ alive > 0
  /\ process_btn_enabled' = TRUE
  /\ alive' = alive - 1
  /\ pc' = "idle"
  /\ UNCHANGED << engine, clicks >>

\* the window before the first click, over the ledgers of SpecParse and
\* trees of at most one document
InitApp ==
  /\ \/ /\ base_exists = TRUE /\ excel_readable = TRUE
        /\ dir \in SeqsUpTo(ParseDocs, 1)
        /\ file \in ParseLedgers
     \/ /\ base_exists = FALSE /\ excel_readable = TRUE
        /\ dir = << >> /\ file \in ParseLedgers
     \/ /\ base_exists = TRUE /\ excel_readable = FALSE
        /\ dir = << >> /\ file = [n \in SheetNames |-> NoSheet]
  /\ Elsewhere
  /\ phases = << >>
  /\ wb = file
  /\ existing_uuid_positions = << >>
  /\ existing_uuid_set = {}
  /\ new_uuid_positions = << >>
  /\ inserted = 0 /\ warnings = 0 /\ errors = 0
  /\ dry_run = FALSE
  /\ next_doc = 1
  /\ pc = "idle"
  /\ log = << >>
  /\ result = NoResult
  /\ run = 0
  /\ prev = NoPrev
  /\ file0 = file
  /\ saves = 0
  /\ dup_count = 0

NextApp ==
  \/ ClickIgnored
  \/ ClickRejected
  \/ _start_processing
  \/ ProcessRun
  \/ ProcessLoadError
  \/ ParseError
  \/ YearError
  \/ EmptyUuid
  \/ Omit
  \/ Insert
  \/ InsertDry
  \/ ScanEnd
  \/ ApplyDuplicates
  \/ SortSheets
  \/ SortError
  \/ Save
  \/ Return
  \/ ProcessFinally

SpecApp == InitApp /\ [][NextApp]_vars

\* ------------------------------------------------- _normalize_uuid on its own
\* raw UUID texts: letters, braces and blanks
Texts == SeqsUpTo({"a", "{", "}", " "}, MaxLen)

\* the parser normalizes the text of the stamp (394), run normalizes the
\* result once more (167)
Normalize ==
  /\ Len(keys) < 2
  /\ keys' = Append(keys, _normalize_uuid(IF keys = << >> THEN text ELSE keys[Len(keys)]))
  /\ UNCHANGED << dir, file, wb, existing_uuid_positions, existing_uuid_set,
                  new_uuid_positions, inserted, warnings, errors, dry_run, next_doc,
                  pc, log, result, run, prev, file0, saves, dup_count, phases,
                  base_exists, excel_readable, process_btn_enabled, alive, clicks, text >>

InitNorm ==
  /\ text \in Texts
  /\ keys = << >>
  /\ process_btn_enabled = TRUE /\ alive = 0 /\ clicks = 0
  /\ base_exists = TRUE /\ excel_readable = TRUE
  /\ dir = << >>
  /\ file = [n \in SheetNames |-> NoSheet]
  /\ phases = << >>
  /\ wb = file
  /\ existing_uuid_positions = << >>
  /\ existing_uuid_set = {}
  /\ new_uuid_positions = << >>
  /\ inserted = 0 /\ warnings = 0 /\ errors = 0
  /\ dry_run = FALSE
  /\ next_doc = 1
  /\ pc = "idle"
  /\ log = << >>
  /\ result = NoResult
  /\ run = 0
  /\ prev = NoPrev
  /\ file0 = file
  /\ saves = 0
  /\ dup_count = 0

NextNorm == Normalize

SpecNorm == InitNorm /\ [][NextNorm]_vars

\* ------------------------------------------------- the sorter on its own
\* the rows a sheet handed to the sorter may hold: empty, datetime and ISO
\* text date cells, with and without UTC offset, employees that differ in
\* case only, every fill
SortRows ==
  { [values |-> Values(f, <<"a">>, e), fill |-> NOFILL] :
      f \in {0, 20260105, -20260120}, e \in {Ana, ana, bob} }
  \cup { [values |-> Values(f, <<"a">>, Ana), fill |-> YELLOW] : f \in {0, 20260105} }
  \cup { [values |-> Values(20260105, <<"a">>, ana), fill |-> GREEN] }
  \cup { [values |-> Values(f, <<"a">>, bob), fill |-> RED] : f \in {0, 20260105} }
  \cup { [values |-> Values(0 - (20260110 + AWARE), <<"a">>, e), fill |-> NOFILL] :
           e \in {Ana, bob} }

SortLedgers ==
  { [n \in SheetNames |->
       IF n = SheetName(2) THEN NoSheet
       ELSE [exists |-> TRUE, header |-> COLUMNS, filter |-> TRUE, rows |-> rs]] :
    rs \in SeqsUpTo(SortRows, MaxSortRows) }

\* a run over an empty tree that has reached Step 5
InitSort ==
  /\ dir = << >>
  /\ file \in SortLedgers
  /\ wb = file
  /\ existing_uuid_positions = _collect_uuid_positions(file)
  /\ existing_uuid_set = DOMAIN _collect_uuid_positions(file)
  /\ new_uuid_positions = << >>
  /\ inserted = 0 /\ warnings = 0 /\ errors = 0
  /\ dry_run = FALSE
  /\ next_doc = 1
  /\ pc = "sort"
  /\ phases = << "load", "dups" >>
  /\ base_exists = TRUE /\ excel_readable = TRUE
  /\ Elsewhere
  /\ log = << >>
  /\ result = NoResult
  /\ run = 1
  /\ prev = NoPrev
  /\ file0 = file
  /\ saves = 0
  /\ dup_count = 0

NextSort == SortSheets \/ SortError

SpecSort == InitSort /\ [][NextSort]_vars

\* ================================================================ claims
RowCount(book) == [n \in SheetNames |-> Len(book[n].rows)]

\* the lines of a log that are about one document
PerDocument(l) ==
  SelectSeq(l, LAMBDA e : e.tag \in {"ERROR parseando", "ERROR fecha fuera",
                                     "ERROR UUID vacio", "OMITIDO UUID ya existente",
                                     "ADVERTENCIA mes distinto"})

CountTag(l, tags) == Cardinality({i \in 1..Len(l) : l[i].tag \in tags})

\* the key the run looks up for the document under the scan
ScannedKey == _normalize_uuid(_normalize_uuid(dir[next_doc].uuid))

\* C1: a second non-simulation run right after a non-simulation run over the
\* same tree inserts nothing: its result says 0 and no sheet gains a row.
C1_Idempotence ==
  (pc = "done" /\ prev.valid /\ ~prev.dry_run /\ ~dry_run)
    => (result.inserted = 0 /\ RowCount(file) = RowCount(prev.file))

\* C2: a document whose normalized UUID equals the normalized UUID of a data
\* row of a sheet of the ledger with the standard header is not inserted:
\* the step that handles it adds no row and leaves the inserted count alone.
C2_ExistingNotReinserted ==
  [][ ( /\ pc = "scan" /\ next_doc <= Len(dir)
        /\ dir[next_doc].xml = "ok"
        /\ \E n \in SheetNames :
             /\ file0[n].exists /\ file0[n].header = COLUMNS
             /\ \E i \in 1..Len(file0[n].rows) :
                  _normalize_uuid(file0[n].rows[i].values[5])
                    = _normalize_uuid(dir[next_doc].uuid) )
      => (inserted' = inserted /\ RowCount(wb') = RowCount(wb)) ]_vars

\* C3: after a non-simulation run every UUID key with more than one location
\* in the ledger has all its locations painted red, and the duplicate count of
\* the run is the number of such keys.
C3_DuplicateSymmetry ==
  (pc = "done" /\ ~dry_run)
    => LET idx == _collect_uuid_positions(file)
           dups == {k \in DOMAIN idx : Len(idx[k]) > 1}
       IN /\ \A k \in dups : \A i \in 1..Len(idx[k]) :
                file[idx[k][i][1]].rows[idx[k][i][2] - 1].fill = RED
          /\ dup_count = Cardinality(dups)

Tag(fill) ==
  IF fill = RED THEN "DUPLICATE" ELSE IF fill = YELLOW THEN "MONTH_MISMATCH" ELSE "NONE"

Pairs(ws) == [i \in 1..Len(ws.rows) |-> << ws.rows[i].values, Tag(ws.rows[i].fill) >>]

Count(sq, x) == Cardinality({i \in 1..Len(sq) : sq[i] = x})

SameBag(sq, tq) ==
  /\ Len(sq) = Len(tq)
  /\ \A i \in 1..Len(sq) : Count(sq, sq[i]) = Count(tq, sq[i])

\* C4: the sorter leaves in every sheet the same multiset of (twelve values,
\* highlight tag) pairs it found there; header and filter stay as they were.
C4_SortPermutation ==
  [][ pc = "sort" =>
        \A n \in SheetNames :
           /\ SameBag(Pairs(wb[n]), Pairs(wb'[n]))
           /\ wb'[n].header = wb[n].header
           /\ wb'[n].exists = wb[n].exists ]_vars

\* the sorter has moved a red row and a yellow row to other positions
C4_Witness ==
  /\ pc = "save"
  /\ \E i, j \in 1..Len(wb[SheetName(1)].rows) :
       /\ wb[SheetName(1)].rows[i].fill = RED
       /\ file0[SheetName(1)].rows[i].fill # RED
       /\ wb[SheetName(1)].rows[j].fill = YELLOW
       /\ file0[SheetName(1)].rows[j].fill # YELLOW

\* C5: in a non-simulation run a valid invoice whose key is not yet present
\* becomes the new last row of the sheet of its own issue month, every other
\* sheet keeps its rows, the row is yellow exactly when the issue month is
\* not the folder month, and exactly then the warning count grows by one.
C5_InsertedInIssueMonth ==
  [][ ( /\ pc = "scan" /\ next_doc <= Len(dir) /\ ~dry_run
        /\ dir[next_doc].xml = "ok"
        /\ Year(dir[next_doc].fecha) = TARGET_YEAR
        /\ _normalize_uuid(dir[next_doc].uuid) # << >>
        /\ ScannedKey \notin existing_uuid_set )
      => LET d == dir[next_doc]
             sheet == SheetName(Month(d.fecha))
             differs == Month(d.fecha) # d.source_month
             last == wb'[sheet].rows[Len(wb'[sheet].rows)]
         IN /\ wb'[sheet].exists
            /\ Len(wb'[sheet].rows) = Len(wb[sheet].rows) + 1
            /\ SubSeq(wb'[sheet].rows, 1, Len(wb[sheet].rows)) = wb[sheet].rows
            /\ last.values[1] = d.fecha
            /\ last.values[5] = _normalize_uuid(d.uuid)
            /\ last.values[12] = d.empleado
            /\ \A n \in SheetNames \ {sheet} : wb'[n].rows = wb[n].rows
            /\ (Tag(last.fill) = "MONTH_MISMATCH") <=> differs
            /\ Tag(last.fill) \in {"MONTH_MISMATCH", "NONE"}
            /\ warnings' = warnings + (IF differs THEN 1 ELSE 0)
            /\ inserted' = inserted + 1 ]_vars

\* an invoice of February found under Enero is the yellow last row of
\* "Febrero 2026", with one warning
C5_Witness ==
  /\ pc = "scan" /\ ~dry_run /\ next_doc = 2
  /\ dir[1].source_month = 1 /\ Month(dir[1].fecha) = 2
  /\ inserted = 1 /\ warnings = 1
  /\ Len(wb[SheetName(2)].rows) = 1
  /\ wb[SheetName(2)].rows[1].fill = YELLOW

IsBadDocument(d) ==
  \/ d.xml # "ok"
  \/ Year(d.fecha) # TARGET_YEAR
  \/ _normalize_uuid(_normalize_uuid(d.uuid)) = << >>

\* C6: a document that fails parsing or the recipient check, is of another
\* year, or has an empty normalized UUID adds no row, counts one error, and
\* the scan goes on with the next document.
C6_BadDocumentRejected ==
  [][ (pc = "scan" /\ next_doc <= Len(dir) /\ IsBadDocument(dir[next_doc]))
      => /\ RowCount(wb') = RowCount(wb)
         /\ errors' = errors + 1
         /\ inserted' = inserted
         /\ pc' = "scan" /\ next_doc' = next_doc + 1 ]_vars

\* C7: a simulation run leaves the loaded workbook as it was loaded and
\* does not write the ledger file.
C7_DryRunNoMutation ==
  (dry_run /\ pc \in {"scan", "return", "done"})
    => (wb = file0 /\ file = file0 /\ saves = 0)

\* C8: a simulation run and a real run over the same tree and the same ledger
\* log the same per-document lines.
C8_DryRunSameLog ==
  (pc = "done" /\ prev.valid /\ prev.dry_run /\ ~dry_run)
    => PerDocument(prev.log) = PerDocument(log)

\* C9 as stated: the result holds four counts besides the simulation flag,
\* the duplicate groups among them.
C9_FourCounts ==
  pc = "done"
    => /\ Cardinality(DOMAIN result \ {"dry_run"}) = 4
       /\ result.dry_run = dry_run

\* C9 amended: the result holds three counts (rows inserted, warnings, errors)
\* and the simulation flag echoed back; the duplicate count is part of the
\* warnings count.
C9_ResultRecord ==
  pc = "done"
    => /\ DOMAIN result = {"inserted", "warnings", "errors", "dry_run"}
       /\ result.dry_run = dry_run
       /\ result.errors = CountTag(log, {"ERROR parseando", "ERROR fecha fuera",
                                        "ERROR UUID vacio", "ERROR ordenando sheets"})
       /\ result.warnings = CountTag(log, {"ADVERTENCIA mes distinto"}) + dup_count
       /\ dry_run => result.inserted = 0
       /\ ~dry_run =>
            \A n \in SheetNames :
               Len(file[n].rows) >= Len(file0[n].rows)
       /\ ~dry_run =>
            result.inserted =
              Len(file[SheetName(1)].rows) - Len(file0[SheetName(1)].rows)
              + Len(file[SheetName(2)].rows) - Len(file0[SheetName(2)].rows)

\* a simulation run has returned its flag and an error count above zero
C9_Witness ==
  /\ pc = "done" /\ dry_run
  /\ result.dry_run /\ result.errors > 0 /\ result.inserted = 0

Omitted ==
  /\ inserted' = inserted
  /\ RowCount(wb') = RowCount(wb)
  /\ errors' = errors
  /\ log' = Append(log, [tag |-> "OMITIDO UUID ya existente", at |-> next_doc])

\* C10 as stated: an invoice whose key is in the ledger index is skipped,
\* with no error and an omission line, whatever its issue year.
C10_IndexedAlwaysOmitted ==
  [][ ( /\ pc = "scan" /\ next_doc <= Len(dir)
        /\ dir[next_doc].xml = "ok"
        /\ ScannedKey \in DOMAIN existing_uuid_positions )
      => Omitted ]_vars

\* C10 amended: an invoice of the target year whose key is in the ledger
\* index is skipped, with no error and an omission line.
C10_IndexedOmitted ==
  [][ ( /\ pc = "scan" /\ next_doc <= Len(dir)
        /\ dir[next_doc].xml = "ok"
        /\ Year(dir[next_doc].fecha) = TARGET_YEAR
        /\ ScannedKey \in DOMAIN existing_uuid_positions )
      => Omitted ]_vars

\* a document whose key the ledger held has been omitted
C10_Witness ==
  /\ pc = "scan" /\ next_doc = 2
  /\ _normalize_uuid(_normalize_uuid(dir[1].uuid)) \in DOMAIN existing_uuid_positions
  /\ Year(dir[1].fecha) = TARGET_YEAR
  /\ log = << [tag |-> "OMITIDO UUID ya existente", at |-> 1] >>
  /\ inserted = 0 /\ errors = 0

\* a document that passes every check of the scan
IsValidDocument(d) ==
  d.xml = "ok" /\ Year(d.fecha) = TARGET_YEAR /\ _normalize_uuid(d.uuid) # << >>

KeyOf(d) == _normalize_uuid(_normalize_uuid(d.uuid))

TotalRows(book) == Len(book[SheetName(1)].rows) + Len(book[SheetName(2)].rows)

\* C11: in a non-simulation run, of the valid documents that share one key
\* the ledger index does not hold, the first in scan order is inserted; each
\* later one adds no row and raises neither the error nor the warning count.
C11_FirstOfKeyInserted ==
  [][ ( /\ pc = "scan" /\ next_doc <= Len(dir) /\ ~dry_run
        /\ IsValidDocument(dir[next_doc])
        /\ KeyOf(dir[next_doc]) \notin DOMAIN existing_uuid_positions )
      => IF \E j \in 1..(next_doc - 1) :
              IsValidDocument(dir[j]) /\ KeyOf(dir[j]) = KeyOf(dir[next_doc])
         THEN /\ RowCount(wb') = RowCount(wb)
              /\ inserted' = inserted
              /\ errors' = errors
              /\ warnings' = warnings
         ELSE /\ TotalRows(wb') = TotalRows(wb) + 1
              /\ inserted' = inserted + 1 ]_vars

\* two valid documents with one key have been scanned: one row, no error
C11_Witness ==
  /\ pc = "scan" /\ ~dry_run /\ next_doc = 3
  /\ IsValidDocument(dir[1]) /\ IsValidDocument(dir[2])
  /\ KeyOf(dir[1]) = KeyOf(dir[2])
  /\ dir[1].uuid # dir[2].uuid
  /\ KeyOf(dir[1]) \notin DOMAIN existing_uuid_positions
  /\ inserted = 1 /\ errors = 0
  /\ TotalRows(wb) = TotalRows(file0) + 1

\* C12: when the source root directory does not exist the run raises: it
\* never gets past the scan, returns no result and does not write the ledger.
C12_MissingRootFatal ==
  ~base_exists
    => /\ pc \in {"idle", "scan", "raised"}
       /\ saves = 0
       /\ file = file0

\* phrase in text, both word by word
ContainsPhrase(words, phrase) ==
  \E i \in 1..(Len(words) - Len(phrase) + 1) :
     SubSeq(words, i, i + Len(phrase) - 1) = phrase

\* C13: when the run skips a valid document because its key is in the ledger
\* index, some line the logger has received contains "se omite insercion".
C13_OmissionPhraseLogged ==
  [][ ( /\ pc = "scan" /\ next_doc <= Len(dir)
        /\ IsValidDocument(dir[next_doc])
        /\ KeyOf(dir[next_doc]) \in DOMAIN existing_uuid_positions )
      => \E i \in 1..Len(log') :
            ContainsPhrase(Message(log'[i].tag), << "se", "omite", "insercion" >>) ]_vars

\* C14: a non-simulation run that has returned read the ledger once, before
\* any document; scanned every document; then ran the duplicate pass once,
\* then the sorter once, then wrote the ledger file once - whether or not a
\* row was inserted and whether or not the sorter raised.
C14_PhaseOrder ==
  (pc = "done" /\ ~dry_run)
    => LET n == Len(phases)
       IN /\ n = Len(dir) + 4
          /\ phases[1] = "load"
          /\ \A i \in 2..(n - 3) : phases[i] \in {"scan", "insert"}
          /\ Cardinality({i \in 1..n : phases[i] = "insert"}) = inserted
          /\ phases[n - 2] = "dups"
          /\ phases[n - 1] = "sort"
          /\ phases[n] = "save"
          /\ saves = 1
          /\ file = wb

\* a run whose sorter raised and that inserted nothing has written the file
C14_Witness ==
  /\ pc = "done" /\ ~dry_run
  /\ inserted = 0
  /\ Len(dir) > 0
  /\ \E i \in 1..Len(log) : log[i].tag = "ERROR ordenando sheets"
  /\ saves = 1

\* the date a cell stands for in the order of a sheet: its datetime, the
\* date its ISO text spells (with or without offset), or the maximum date
\* when it spells none
CellDate(v) ==
  IF v > 0 THEN v
  ELSE IF v < 0 - AWARE THEN (0 - v) - AWARE
  ELSE IF v < 0 - 1 THEN 0 - v
  ELSE DATETIME_MAX

\* the cell is a text that spells a date with a UTC offset
HasOffset(v) == v < 0 - AWARE

EmployeeKey(r) == Lower(r.values[12])

RowLess(r, q) ==
  \/ StrLess(EmployeeKey(r), EmployeeKey(q))
  \/ EmployeeKey(r) = EmployeeKey(q) /\ CellDate(r.values[1]) < CellDate(q.values[1])

SameKey(r, q) ==
  EmployeeKey(r) = EmployeeKey(q) /\ CellDate(r.values[1]) = CellDate(q.values[1])

\* no row stands before a row of a smaller key
Ordered(ws) ==
  \A i, j \in 1..Len(ws.rows) : i < j => ~RowLess(ws.rows[j], ws.rows[i])

TaggedRows(ws) ==
  [i \in 1..Len(ws.rows) |-> [values |-> ws.rows[i].values, tag |-> Tag(ws.rows[i].fill)]]

\* the rows of every key follow each other after as they did before
KeepsEqualKeys(before, after) ==
  /\ Len(after.rows) = Len(before.rows)
  /\ \A k \in 1..Len(before.rows) :
       SelectSeq(TaggedRows(after), LAMBDA r : SameKey(r, before.rows[k]))
         = SelectSeq(TaggedRows(before), LAMBDA r : SameKey(r, before.rows[k]))

Qualifies(name, ws) == ws.exists /\ EndsWithTargetYear(name) /\ Len(ws.rows) >= 2

\* two rows of one employee, one date with a UTC offset and one without
Clash(ws) ==
  \E i, j \in 1..Len(ws.rows) :
     /\ EmployeeKey(ws.rows[i]) = EmployeeKey(ws.rows[j])
     /\ HasOffset(ws.rows[i].values[1]) /\ ~HasOffset(ws.rows[j].values[1])

\* the sorter has got through sheet number k of the workbook
SortedThrough(book, k) ==
  \A m \in 1..k : ~(Qualifies(SheetOrder[m], book[SheetOrder[m]]) /\ Clash(book[SheetOrder[m]]))

\* C15 as stated: after the sorter every qualifying sheet is in ascending
\* order of (lower-cased employee, issue date), rows of equal keys in the
\* order they had, a row without a readable date as if it had the maximum date.
C15_SortedAfterSorter ==
  [][ pc = "sort" =>
        \A n \in SheetNames :
           Qualifies(n, wb[n]) => (Ordered(wb'[n]) /\ KeepsEqualKeys(wb[n], wb'[n])) ]_vars

\* C15 amended: that holds for every qualifying sheet the sorter gets through;
\* a sheet where one employee has a date with a UTC offset and a date without
\* makes the sort raise: it and the sheets after it keep their rows as they
\* were, and the run counts one error.
C15_SortedUnlessRaised ==
  [][ pc = "sort" =>
        /\ \A k \in 1..Len(SheetOrder) :
              LET n == SheetOrder[k]
              IN Qualifies(n, wb[n]) =>
                   IF SortedThrough(wb, k)
                   THEN Ordered(wb'[n]) /\ KeepsEqualKeys(wb[n], wb'[n])
                   ELSE wb'[n] = wb[n]
        /\ errors' = errors + (IF SortedThrough(wb, Len(SheetOrder)) THEN 0 ELSE 1) ]_vars

\* a row without a date stood before a dated row of its employee; the
\* sorter has put it behind
C15_Witness ==
  /\ pc = "save" /\ errors = 0
  /\ LET before == file0[SheetName(1)].rows
         after == wb[SheetName(1)].rows
     IN /\ Len(before) = MaxSortRows
        /\ \E i, j \in 1..Len(before) :
             /\ i < j
             /\ before[i].values[1] = 0 /\ before[j].values[1] > 0
             /\ EmployeeKey(before[i]) = EmployeeKey(before[j])
             /\ after[i] = before[j] /\ after[j] = before[i]

LastRow(ws) == ws.rows[Len(ws.rows)]

\* C16 as stated: a document without its subtotal or its total attribute
\* fails in the parser: one error is counted and no row is inserted.
C16_MissingAmountRejected ==
  [][ ( /\ pc = "scan" /\ next_doc <= Len(dir)
        /\ (dir[next_doc].subtotal = 0 - 1 \/ dir[next_doc].total = 0 - 1) )
      => /\ errors' = errors + 1
         /\ inserted' = inserted
         /\ RowCount(wb') = RowCount(wb) ]_vars

\* C16 amended: the parser fails for a malformed document, a missing or
\* invalid date and a failed recipient check - one error, a parse-error
\* line, no row; a missing subtotal or total is read as 0, and a document
\* that lacks one and is otherwise valid and new is inserted with that 0.
C16_MissingAmountIsZero ==
  [][ (pc = "scan" /\ next_doc <= Len(dir))
      => LET d == dir[next_doc]
             sheet == SheetName(Month(d.fecha))
         IN /\ d.xml \in {"malformed", "no_date", "bad_rfc"}
                 => /\ errors' = errors + 1
                    /\ inserted' = inserted
                    /\ RowCount(wb') = RowCount(wb)
                    /\ log' = Append(log, [tag |-> "ERROR parseando", at |-> next_doc])
            /\ ( /\ d.subtotal = 0 - 1 \/ d.total = 0 - 1
                 /\ IsValidDocument(d) /\ KeyOf(d) \notin existing_uuid_set /\ ~dry_run )
                 => /\ errors' = errors
                    /\ inserted' = inserted + 1
                    /\ Len(wb'[sheet].rows) = Len(wb[sheet].rows) + 1
                    /\ LastRow(wb'[sheet]).values[5] = _normalize_uuid(d.uuid)
                    /\ LastRow(wb'[sheet]).values[7] = (IF d.subtotal = 0 - 1 THEN 0 ELSE d.subtotal)
                    /\ LastRow(wb'[sheet]).values[10] = (IF d.total = 0 - 1 THEN 0 ELSE d.total) ]_vars

\* a document without SubTotal is the new row of January, its amount 0
C16_Witness ==
  /\ pc = "scan" /\ ~dry_run /\ next_doc = 2
  /\ dir[1].subtotal = 0 - 1
  /\ inserted = 1 /\ errors = 0
  /\ Len(wb[SheetName(1)].rows) = Len(file0[SheetName(1)].rows) + 1
  /\ LastRow(wb[SheetName(1)]).values[7] = 0
  /\ LastRow(wb[SheetName(1)]).values[10] = 116

\* a run started from the window is under way: its thread has been started
\* and the run has neither returned nor raised
RunUnderWay == alive > 0 /\ pc \notin {"idle", "done", "raised"}

\* C17: from the click that starts a thread until its run has returned or
\* raised, a click starts no further thread, so at most one thread is alive
\* and the button is disabled exactly while one is; the step the thread takes
\* after the run, returned or raised, enables the button again.
C17_SingleWriter ==
  /\ [](alive <= 1 /\ process_btn_enabled = (alive = 0))
  /\ [][ /\ (RunUnderWay /\ clicks' = clicks + 1) => (alive' = alive /\ pc' = pc)
         /\ (alive = 1 /\ pc \in {"done", "raised"} /\ clicks' = clicks) =>
               (process_btn_enabled' /\ alive' = 0) ]_vars

\* a run that raised at the load has ended, a click that came while it was
\* under way has started nothing, and the button is enabled again
C17_Witness ==
  /\ ~excel_readable
  /\ pc = "idle" /\ run = 1 /\ clicks = 2
  /\ alive = 0 /\ process_btn_enabled
  /\ phases = << "load" >>

Fills(book) == [n \in SheetNames |-> [i \in 1..Len(book[n].rows) |-> book[n].rows[i].fill]]

Omissions(l) == CountTag(l, {"OMITIDO UUID ya existente"})

\* the step taken for one file: one row more, or one error more, or one
\* omission line more, and nothing else of the three
OneOutcome ==
  \/ /\ inserted' = inserted + 1 /\ TotalRows(wb') = TotalRows(wb) + 1
     /\ errors' = errors /\ Omissions(log') = Omissions(log)
  \/ /\ errors' = errors + 1
     /\ inserted' = inserted /\ RowCount(wb') = RowCount(wb)
     /\ Omissions(log') = Omissions(log)
  \/ /\ Omissions(log') = Omissions(log) + 1
     /\ inserted' = inserted /\ RowCount(wb') = RowCount(wb)
     /\ errors' = errors

\* C19 as stated: in a non-simulation run every scanned file ends in one of
\* three outcomes, so the counts of the run satisfy inserted + errors +
\* omissions = files scanned, and inserted is the number of rows appended.
C19_ThreeOutcomes ==
  /\ [][ (pc = "scan" /\ next_doc <= Len(dir) /\ ~dry_run) => OneOutcome ]_vars
  /\ []( (pc = "done" /\ ~dry_run) =>
           /\ result.inserted + result.errors + Omissions(log) = Len(dir)
           /\ result.inserted = TotalRows(file) - TotalRows(file0) )

\* C19 amended: every scanned file ends in one of the three outcomes, and
\* inserted + errors + omissions = files scanned holds while the files are
\* scanned; the error count the run returns is one higher when the sorter
\* raised.  inserted is the number of rows appended.
C19_ThreeOutcomesAndSorter ==
  /\ [][ (pc = "scan" /\ next_doc <= Len(dir) /\ ~dry_run) => OneOutcome ]_vars
  /\ []( (pc = "scan" /\ ~dry_run) =>
           inserted + errors + Omissions(log) = next_doc - 1 )
  /\ []( (pc = "done" /\ ~dry_run) =>
           /\ result.inserted + result.errors + Omissions(log)
                = Len(dir) + CountTag(log, {"ERROR ordenando sheets"})
           /\ CountTag(log, {"ERROR ordenando sheets"}) \in {0, 1}
           /\ result.inserted = TotalRows(file) - TotalRows(file0) )

\* two files, one rejected and one inserted, and a sorter that raised: the
\* run returns two errors
C19_Witness ==
  /\ pc = "done" /\ ~dry_run
  /\ Len(dir) = 2
  /\ result.inserted = 1 /\ result.errors = 2
  /\ Omissions(log) = 0
  /\ CountTag(log, {"ERROR ordenando sheets"}) = 1

\* C20: normalizing a UUID text twice gives what normalizing it once gives,
\* so the key of a ledger cell (normalized once) is the key of a document
\* with the same text (normalized twice).
C20_NormalizeIdempotent ==
  Len(keys) = 2 => keys[2] = keys[1]

====
